---- MODULE Spec2Model ----
(***************************************************************************)
(* Model of the top-level component App (src/src/App.tsx): the scan        *)
(* orchestration of handleScan, the API-key handling (mount effect, key    *)
(* modal, saveApiKey) and the export gate (handleExportClick,              *)
(* handleUnlockSleigh).                                                    *)
(*                                                                         *)
(* JavaScript runs each handler to completion: one action is the code a    *)
(* handler (or the continuation of an await) runs until it returns or      *)
(* reaches its next await.  Strings the code computes on (the API key)     *)
(* and the export password) are sequences of one-character strings; '' is  *)
(* <<>>.                                                                   *)
(*                                                                         *)
(* Spec is the scan and key handling over the full input alphabet, with    *)
(* the export modal left closed; SpecApp has every handler of App, over a  *)
(* smaller input alphabet.                                                 *)
(***************************************************************************)
EXTENDS Naturals, Sequences, FiniteSets

\* ---------------------------------------------------------------- bounds
MaxScans == 2       \* scans submitted in one run
MaxKeyLen == 2      \* characters typed into the key field
MaxDownloads == 1   \* source downloads in one run

\* ---------------------------------------------------------------- values
NULL == "null"                  \* null of AppState.error / verdict / generatedImage
NoKey == <<"null">>             \* null (getItem) / undefined (process.env.API_KEY)
Undefined == "undefined"        \* err.message of a thrown value without message

KeyChars == {" ", "a"}
Whitespace == {" "}
KeyStrings == UNION {[1..n -> KeyChars] : n \in 0..MaxKeyLen}

StoredKeys == {NoKey, <<"s">>}  \* localStorage at startup: absent or a saved key
EnvKeys == {NoKey, <<"e">>}     \* process.env.API_KEY: absent or a build-time key

KnownTypes == {"wiki", "github", "reddit", "news"}
ScanTypes == KnownTypes \cup {"text"}
Contents == {"Rudolph"}
ScanInputs == [type : ScanTypes, content : Contents]

Texts == {"page text"}                       \* what a fetcher resolves with
Verdicts == {"nice", "naughty"}              \* what judgeInput resolves with
Images == {"base64"}                         \* what generateToyOrCoal resolves with
Messages == {Undefined, "", "Page not found"} \* err.message of a rejection

Fallback == "Something went wrong in the workshop."

HOHOHO == <<"H", "O", "H", "O", "H", "O">>
\* what is typed into the password field
Passwords ==
    {HOHOHO,
     <<"h", "o", "h", "o", "h", "o">>,
     <<"H", "o", "H", "o", "H", "o">>,
     <<"x", "m", "a", "s">>}

visual_prompt(v) == IF v = "nice" THEN "a toy reindeer" ELSE "a lump of coal"

\* ---------------------------------------------------------------- state
VARIABLES
    mounted,        \* the mount effect has run
    state,          \* AppState
    apiKey, showKeyModal, tempKey,
    localStorage,   \* value under GEMINI_API_KEY, NoKey when absent
    envKey,         \* process.env.API_KEY
    scanCount,      \* scans submitted so far
    scans,          \* the handleScan invocations, oldest first
    showExportModal, exportPassword, passwordError,
    downloads,      \* calls of downloadRepo so far
    lastOp          \* history: the handler or continuation that ran last

vars == <<mounted, state, apiKey, showKeyModal, tempKey, localStorage, envKey,
          scanCount, scans, showExportModal, exportPassword, passwordError,
          downloads, lastOp>>

keyVars == <<apiKey, showKeyModal, tempKey, localStorage, envKey>>
scanVars == <<state, scanCount, scans>>
exportVars == <<showExportModal, exportPassword, passwordError, downloads>>

InitialAppState ==
    [status |-> "idle", error |-> NULL, verdict |-> NULL, generatedImage |-> NULL]

Init ==
    /\ mounted = FALSE
    /\ state = InitialAppState
    /\ apiKey = <<>>
    /\ showKeyModal = FALSE
    /\ tempKey = <<>>
    /\ localStorage \in StoredKeys
    /\ envKey \in EnvKeys
    /\ scanCount = 0
    /\ scans = <<>>
    /\ showExportModal = FALSE
    /\ exportPassword = <<>>
    /\ passwordError = FALSE
    /\ downloads = 0
    /\ lastOp = "none"

\* ---------------------------------------------------------------- API key
Truthy(k) == k # NoKey /\ k # <<>>

\* mutant of InitialKey: the build-time key is preferred to the stored one
InitialKeyPrefersEnv(storedKey, env, current) ==
    IF Truthy(env) THEN env
    ELSE IF Truthy(storedKey) THEN storedKey
    ELSE current

\* the key the mount effect puts in memory
InitialKey(storedKey, env, current) ==
    IF Truthy(storedKey) THEN storedKey
    ELSE IF Truthy(env) THEN env
    ELSE current

Mount ==
    /\ lastOp' = "Mount"
    /\ UNCHANGED exportVars
    /\ ~mounted
    /\ mounted' = TRUE
    /\ apiKey' = InitialKey(localStorage, envKey, apiKey)
    /\ UNCHANGED <<state, showKeyModal, tempKey, localStorage, envKey, scanCount, scans>>

RECURSIVE TrimStart(_)
TrimStart(s) ==
    IF s # <<>> /\ Head(s) \in Whitespace THEN TrimStart(Tail(s)) ELSE s

RECURSIVE TrimEnd(_)
TrimEnd(s) ==
    IF s # <<>> /\ s[Len(s)] \in Whitespace
    THEN TrimEnd(SubSeq(s, 1, Len(s) - 1)) ELSE s

\* mutant of Trim: trailing whitespace is kept
TrimLeadingOnly(s) == TrimStart(s)

\* String.prototype.trim
Trim(s) == TrimEnd(TrimStart(s))

OpenKeyModal ==
    /\ lastOp' = "OpenKeyModal"
    /\ UNCHANGED exportVars
    /\ mounted
    /\ tempKey' = apiKey
    /\ showKeyModal' = TRUE
    /\ UNCHANGED <<mounted, state, apiKey, localStorage, envKey, scanCount, scans>>

\* mutant of SetTempKey: the input writes the key in use instead of the draft
SetTempKeyWritesKey(k) ==
    /\ lastOp' = "SetTempKey"
    /\ UNCHANGED exportVars
    /\ mounted
    /\ showKeyModal
    /\ apiKey' = k
    /\ UNCHANGED <<mounted, state, tempKey, showKeyModal, localStorage, envKey,
                   scanCount, scans>>

SetTempKey(k) ==
    /\ lastOp' = "SetTempKey"
    /\ UNCHANGED exportVars
    /\ mounted
    /\ showKeyModal
    /\ tempKey' = k
    /\ UNCHANGED <<mounted, state, apiKey, showKeyModal, localStorage, envKey,
                   scanCount, scans>>

CloseKeyModal ==
    /\ lastOp' = "CloseKeyModal"
    /\ UNCHANGED exportVars
    /\ mounted
    /\ showKeyModal
    /\ showKeyModal' = FALSE
    /\ UNCHANGED <<mounted, state, apiKey, tempKey, localStorage, envKey,
                   scanCount, scans>>

\* mutant of saveApiKey: the key is kept in memory only
saveApiKeyMemoryOnly ==
    /\ lastOp' = "saveApiKey"
    /\ UNCHANGED exportVars
    /\ mounted
    /\ showKeyModal
    /\ IF Trim(tempKey) # <<>>
       THEN /\ apiKey' = Trim(tempKey)
            /\ showKeyModal' = FALSE
            /\ UNCHANGED localStorage
       ELSE UNCHANGED <<localStorage, apiKey, showKeyModal>>
    /\ UNCHANGED <<mounted, state, tempKey, envKey, scanCount, scans>>

saveApiKey ==
    /\ lastOp' = "saveApiKey"
    /\ UNCHANGED exportVars
    /\ mounted
    /\ showKeyModal
    /\ IF Trim(tempKey) # <<>>
       THEN /\ localStorage' = Trim(tempKey)
            /\ apiKey' = Trim(tempKey)
            /\ showKeyModal' = FALSE
       ELSE UNCHANGED <<localStorage, apiKey, showKeyModal>>
    /\ UNCHANGED <<mounted, state, tempKey, envKey, scanCount, scans>>

\* ---------------------------------------------------------------- scan
\* mutant of isProcessing: only the fetch phase is counted as processing
isProcessingFetchOnly == state.status = "fetching_data"

\* mutant of isProcessing: the image phase is not counted as processing
isProcessingWithoutImagePhase ==
    \/ state.status = "fetching_data"
    \/ state.status = "judging"

isProcessing ==
    \/ state.status = "fetching_data"
    \/ state.status = "judging"
    \/ state.status = "generating_image"

\* InputForm calls onScan only while it is not disabled
InputFormEnabled == ~isProcessing

\* mutant of Fetcher: reddit is routed to the github fetcher
FetcherRedditAsGithub(type) ==
    IF type = "wiki" THEN "fetchWikiContent"
    ELSE IF type = "github" THEN "fetchGithubActivity"
    ELSE IF type = "reddit" THEN "fetchGithubActivity"
    ELSE IF type = "news" THEN "performDeepResearch"
    ELSE "none"

\* the fetcher the dispatch chooses for a source type
Fetcher(type) ==
    IF type = "wiki" THEN "fetchWikiContent"
    ELSE IF type = "github" THEN "fetchGithubActivity"
    ELSE IF type = "reddit" THEN "fetchRedditActivity"
    ELSE IF type = "news" THEN "performDeepResearch"
    ELSE "none"

\* the fetchers that are handed the API key
FetcherKey(type, key) ==
    IF type \in {"reddit", "news"} THEN key ELSE NoKey

Call(fn, arg, key) == [ev |-> "call", fn |-> fn, arg |-> arg, key |-> key]
Ok(fn, val) == [ev |-> "ok", fn |-> fn, arg |-> val, key |-> NoKey]
Fail(fn, msg) == [ev |-> "fail", fn |-> fn, arg |-> msg, key |-> NoKey]

FetchCall(input, key) ==
    Call(Fetcher(input.type), input.content, FetcherKey(input.type, key))
JudgeCall(textToAnalyze, key) == Call("judgeInput", textToAnalyze, key)

\* mutant of GenerateCall: the key in memory at the time of the call is passed
GenerateCallCurrentKey(verdict, key) ==
    Call("generateToyOrCoal", visual_prompt(verdict), apiKey)

GenerateCall(verdict, key) == Call("generateToyOrCoal", visual_prompt(verdict), key)

\* mutant of KeyMissing: only a null key counts as missing
KeyMissingNullOnly(key) == key = NoKey

\* !apiKey
KeyMissing(key) == ~Truthy(key)

\* mutant of ResetState: the previous error is not cleared
ResetStateKeepsError(prev) ==
    [prev EXCEPT !.status = "fetching_data", !.verdict = NULL, !.generatedImage = NULL]

\* mutant of ResetState: the previous verdict is not cleared
ResetStateKeepsVerdict(prev) ==
    [prev EXCEPT !.status = "fetching_data", !.error = NULL, !.generatedImage = NULL]

\* the state updaters of handleScan
ResetState(prev) ==
    [prev EXCEPT !.status = "fetching_data", !.error = NULL, !.verdict = NULL,
                 !.generatedImage = NULL]

\* mutant of JudgingState: the judging phase is skipped
JudgingStateSkipsPhase(prev) == [prev EXCEPT !.status = "generating_image"]

JudgingState(prev) == [prev EXCEPT !.status = "judging"]

\* mutant of VerdictState: the phase changes without the verdict being stored
VerdictStateStatusOnly(prev, verdict) == [prev EXCEPT !.status = "generating_image"]

VerdictState(prev, verdict) ==
    [prev EXCEPT !.status = "generating_image", !.verdict = verdict]

\* mutant of CompleteState: the image is stored but the phase is not left
CompleteStateKeepsStatus(prev, imageBase64) ==
    [prev EXCEPT !.generatedImage = imageBase64]

\* mutant of CompleteState: the image is not stored
CompleteStateNoImage(prev, imageBase64) == [prev EXCEPT !.status = "complete"]

\* mutant of CompleteState: the updater builds a fresh state without the verdict
CompleteStateDropsVerdict(prev, imageBase64) ==
    [prev EXCEPT !.status = "complete", !.generatedImage = imageBase64,
                 !.verdict = NULL]

CompleteState(prev, imageBase64) ==
    [prev EXCEPT !.status = "complete", !.generatedImage = imageBase64]

\* mutant of ErrorMessage: no fallback for an empty or missing message
ErrorMessageNoFallback(message) == message

\* err.message || "Something went wrong in the workshop."
ErrorMessage(message) ==
    IF message = Undefined \/ message = "" THEN Fallback ELSE message

\* mutant of ErrorState: a failure also discards the verdict
ErrorStateDiscardsVerdict(prev, message) ==
    [prev EXCEPT !.status = "error", !.error = ErrorMessage(message),
                 !.verdict = NULL]

ErrorState(prev, message) ==
    [prev EXCEPT !.status = "error", !.error = ErrorMessage(message)]

Running(s) == s.pc \in {"fetch", "judge", "generate"}
Live(ss) == SelectSeq(ss, Running)

\* the invocation that handleScan(input) starts: it runs to its first await
NewScan(id, input, key) ==
    IF Fetcher(input.type) = "none"
    THEN [id |-> id, input |-> input, apiKey |-> key, pc |-> "judge",
          textToAnalyze |-> input.content, verdict |-> NULL,
          trace |-> <<JudgeCall(input.content, key)>>]
    ELSE [id |-> id, input |-> input, apiKey |-> key, pc |-> "fetch",
          textToAnalyze |-> input.content, verdict |-> NULL,
          trace |-> <<FetchCall(input, key)>>]

SubmitState(prev, input) ==
    IF Fetcher(input.type) = "none"
    THEN JudgingState(ResetState(prev))
    ELSE ResetState(prev)

handleScan(input) ==
    /\ lastOp' = "handleScan"
    /\ UNCHANGED exportVars
    /\ mounted
    /\ InputFormEnabled
    /\ IF KeyMissing(apiKey)
       THEN /\ showKeyModal' = TRUE
            /\ UNCHANGED <<state, scanCount, scans>>
       ELSE /\ scanCount < MaxScans
            /\ state' = SubmitState(state, input)
            /\ scanCount' = scanCount + 1
            /\ scans' = Append(Live(scans), NewScan(scanCount + 1, input, apiKey))
            /\ UNCHANGED showKeyModal
    /\ UNCHANGED <<mounted, apiKey, tempKey, localStorage, envKey>>

\* the fetcher's promise resolves: lines after the await up to the next one
FetchResolved(i, text) ==
    /\ lastOp' = "FetchResolved"
    /\ UNCHANGED exportVars
    /\ scans[i].pc = "fetch"
    /\ state' = JudgingState(state)
    /\ scans' = [scans EXCEPT ![i] =
          [@ EXCEPT !.pc = "judge", !.textToAnalyze = text,
                    !.trace = @ \o <<Ok(Fetcher(scans[i].input.type), text),
                                     JudgeCall(text, scans[i].apiKey)>>]]
    /\ UNCHANGED <<mounted, keyVars, scanCount>>

JudgeResolved(i, verdict) ==
    /\ lastOp' = "JudgeResolved"
    /\ UNCHANGED exportVars
    /\ scans[i].pc = "judge"
    /\ state' = VerdictState(state, verdict)
    /\ scans' = [scans EXCEPT ![i] =
          [@ EXCEPT !.pc = "generate", !.verdict = verdict,
                    !.trace = @ \o <<Ok("judgeInput", verdict),
                                     GenerateCall(verdict, scans[i].apiKey)>>]]
    /\ UNCHANGED <<mounted, keyVars, scanCount>>

GenerateResolved(i, imageBase64) ==
    /\ lastOp' = "GenerateResolved"
    /\ UNCHANGED exportVars
    /\ scans[i].pc = "generate"
    /\ state' = CompleteState(state, imageBase64)
    /\ scans' = [scans EXCEPT ![i] =
          [@ EXCEPT !.pc = "done",
                    !.trace = @ \o <<Ok("generateToyOrCoal", imageBase64)>>]]
    /\ UNCHANGED <<mounted, keyVars, scanCount>>

\* the pending call of a running invocation
Pending(s) == s.trace[Len(s.trace)].fn

\* mutant of Rejected: the failed call is attempted again
RejectedRetries(i, message) ==
    /\ lastOp' = "Rejected"
    /\ UNCHANGED exportVars
    /\ Running(scans[i])
    /\ Len(scans[i].trace) < 4
    /\ state' = state
    /\ scans' = [scans EXCEPT ![i] =
          [@ EXCEPT !.trace = @ \o <<Fail(Pending(scans[i]), message),
                                     scans[i].trace[Len(scans[i].trace)]>>]]
    /\ UNCHANGED <<mounted, keyVars, scanCount>>

\* the pending promise rejects: the catch block
Rejected(i, message) ==
    /\ lastOp' = "Rejected"
    /\ UNCHANGED exportVars
    /\ Running(scans[i])
    /\ state' = ErrorState(state, message)
    /\ scans' = [scans EXCEPT ![i] =
          [@ EXCEPT !.pc = "failed",
                    !.trace = @ \o <<Fail(Pending(scans[i]), message)>>]]
    /\ UNCHANGED <<mounted, keyVars, scanCount>>

\* ---------------------------------------------------------------- export
handleExportClick ==
    /\ lastOp' = "handleExportClick"
    /\ mounted
    /\ showExportModal' = TRUE
    /\ exportPassword' = <<>>
    /\ passwordError' = FALSE
    /\ UNCHANGED <<mounted, keyVars, scanVars, downloads>>

SetExportPassword(p) ==
    /\ lastOp' = "SetExportPassword"
    /\ mounted
    /\ showExportModal
    /\ exportPassword' = p
    /\ passwordError' = FALSE
    /\ UNCHANGED <<mounted, keyVars, scanVars, showExportModal, downloads>>

CloseExportModal ==
    /\ lastOp' = "CloseExportModal"
    /\ mounted
    /\ showExportModal
    /\ showExportModal' = FALSE
    /\ UNCHANGED <<mounted, keyVars, scanVars, exportPassword, passwordError, downloads>>

UpperChar(c) ==
    IF c = "h" THEN "H"
    ELSE IF c = "o" THEN "O"
    ELSE IF c = "x" THEN "X"
    ELSE IF c = "m" THEN "M"
    ELSE IF c = "a" THEN "A"
    ELSE IF c = "s" THEN "S"
    ELSE c

\* mutant of ToUpperCase: the password is compared as typed
ToUpperCaseIdentity(s) == s

\* String.prototype.toUpperCase
ToUpperCase(s) == [k \in DOMAIN s |-> UpperChar(s[k])]

handleUnlockSleigh ==
    /\ lastOp' = "handleUnlockSleigh"
    /\ mounted
    /\ showExportModal
    /\ IF ToUpperCase(exportPassword) = HOHOHO
       THEN /\ downloads < MaxDownloads
            /\ downloads' = downloads + 1
            /\ showExportModal' = FALSE
            /\ UNCHANGED passwordError
       ELSE /\ passwordError' = TRUE
            /\ UNCHANGED <<showExportModal, downloads>>
    /\ UNCHANGED <<mounted, keyVars, scanVars, exportPassword>>

\* ---------------------------------------------------------------- system
Next ==
    \/ Mount
    \/ OpenKeyModal
    \/ \E k \in KeyStrings : SetTempKey(k)
    \/ CloseKeyModal
    \/ saveApiKey
    \/ \E input \in ScanInputs : handleScan(input)
    \/ \E i \in DOMAIN scans, text \in Texts : FetchResolved(i, text)
    \/ \E i \in DOMAIN scans, verdict \in Verdicts : JudgeResolved(i, verdict)
    \/ \E i \in DOMAIN scans, imageBase64 \in Images : GenerateResolved(i, imageBase64)
    \/ \E i \in DOMAIN scans, message \in Messages : Rejected(i, message)

Spec == Init /\ [][Next]_vars

\* the smaller input alphabet of SpecApp
AppKeyStrings == {<<" ">>, <<"a">>}
AppScanInputs == {input \in ScanInputs : input.type \in {"reddit", "text"}}
AppVerdicts == Verdicts
AppMessages == {""}

NextApp ==
    \/ Mount
    \/ OpenKeyModal
    \/ \E k \in AppKeyStrings : SetTempKey(k)
    \/ CloseKeyModal
    \/ saveApiKey
    \/ \E input \in AppScanInputs : handleScan(input)
    \/ \E i \in DOMAIN scans, text \in Texts : FetchResolved(i, text)
    \/ \E i \in DOMAIN scans, verdict \in AppVerdicts : JudgeResolved(i, verdict)
    \/ \E i \in DOMAIN scans, imageBase64 \in Images : GenerateResolved(i, imageBase64)
    \/ \E i \in DOMAIN scans, message \in AppMessages : Rejected(i, message)
    \/ handleExportClick
    \/ \E p \in Passwords : SetExportPassword(p)
    \/ CloseExportModal
    \/ handleUnlockSleigh

SpecApp == Init /\ [][NextApp]_vars

\* a pending call of a running invocation resolves or rejects
Settle ==
    \/ \E i \in DOMAIN scans, text \in Texts : FetchResolved(i, text)
    \/ \E i \in DOMAIN scans, verdict \in AppVerdicts : JudgeResolved(i, verdict)
    \/ \E i \in DOMAIN scans, imageBase64 \in Images : GenerateResolved(i, imageBase64)
    \/ \E i \in DOMAIN scans, message \in AppMessages : Rejected(i, message)

\* SpecApp, with every external call eventually resolving or rejecting
FairSpecApp == SpecApp /\ WF_vars(Settle)

\* ---------------------------------------------------------------- claims
Working == {"fetching_data", "judging", "generating_image"}
Idle == {"idle", "complete", "error"}
InFlight == Len(Live(scans))
Submitted == scans'[Len(scans')]      \* the invocation a submission has just started
Cleared(st) == st.error = NULL /\ st.verdict = NULL /\ st.generatedImage = NULL

\* C1 (as stated): whenever handleScan is invoked with a non-empty API key from
\* status idle, complete or error, the next AppState has status fetching_data and
\* error, verdict and generatedImage all null.
C1_AlwaysFetchingData ==
    [][(lastOp' = "handleScan" /\ apiKey # <<>> /\ state.status \in Idle)
        => (state'.status = "fetching_data" /\ Cleared(state'))]_vars

\* C1 (amended): whenever handleScan is invoked with a non-empty API key from
\* status idle, complete or error, the next AppState has error, verdict and
\* generatedImage all null, and its status is fetching_data when input.type is
\* wiki, github, reddit or news, and judging for any other type (no fetch is
\* awaited, so the judging update is applied in the same run of the handler).
C1_SubmitResets ==
    [][(lastOp' = "handleScan" /\ apiKey # <<>> /\ state.status \in Idle)
        => /\ Cleared(state')
           /\ state'.status = IF Submitted.input.type \in KnownTypes
                              THEN "fetching_data" ELSE "judging"]_vars

\* C1 witness: a second scan was submitted from a terminal state and the state
\* is reset to fetching_data.
C1_Witness ==
    /\ lastOp = "handleScan" /\ scanCount = 2
    /\ state.status = "fetching_data" /\ Cleared(state)

\* C2: if the API key is empty when handleScan is invoked, AppState is unchanged,
\* no fetch/judge/generate call is started, and showKeyModal becomes true.
C2_NoKeyOpensModal ==
    [][(lastOp' = "handleScan" /\ apiKey = <<>>)
        => (showKeyModal' /\ UNCHANGED <<state, scans, scanCount>>)]_vars

\* C2 witness: handleScan has run with an empty key: the modal is open and no
\* scan was started.
C2_Witness ==
    /\ lastOp = "handleScan" /\ apiKey = <<>> /\ showKeyModal
    /\ state = InitialAppState /\ scans = <<>>

\* C3: at most one scan is in flight, and one is in flight exactly while the
\* status is fetching_data, judging or generating_image (the form is disabled).
C3_OneScanInFlight ==
    /\ InFlight <= 1
    /\ (InFlight = 1) <=> (state.status \in Working)

\* C3 witness: a second scan is in flight after the first one has ended.
C3_Witness == scanCount = 2 /\ InFlight = 1 /\ Len(scans) = 1

LinearStep(from, to) ==
    \/ from = "fetching_data" /\ to = "judging"
    \/ from = "judging" /\ to = "generating_image"
    \/ from = "generating_image" /\ to = "complete"
    \/ from \in Working /\ to = "error"

\* C4 (as stated): the status only moves fetching_data -> judging ->
\* generating_image -> complete one step at a time, or from a working state to
\* error; a new submission is the only way out of idle, complete and error, and
\* it enters fetching_data.
C4_NeverSkipsPhase ==
    [][state'.status # state.status
        => \/ LinearStep(state.status, state'.status)
           \/ /\ state.status \in Idle
              /\ lastOp' = "handleScan"
              /\ state'.status = "fetching_data"]_vars

\* C4 (amended): as stated, except that a submission whose input.type is none of
\* wiki, github, reddit, news awaits no fetch and enters judging directly, so for
\* such a scan the fetching_data phase is skipped; every other move is one step
\* along fetching_data -> judging -> generating_image -> complete or to error.
C4_LinearPhases ==
    [][state'.status # state.status
        => \/ LinearStep(state.status, state'.status)
           \/ /\ state.status \in Idle
              /\ lastOp' = "handleScan"
              /\ state'.status = IF Submitted.input.type \in KnownTypes
                                 THEN "fetching_data" ELSE "judging"]_vars

\* C4 witness: a scan that fetched has gone through all phases to complete.
C4_Witness ==
    /\ lastOp = "GenerateResolved" /\ state.status = "complete"
    /\ Len(scans) = 1 /\ Len(scans[1].trace) = 6

\* the message and the stage of the failure that ended invocation s
FailureMessage(s) == s.trace[Len(s.trace)].arg
FailedStage(s) == s.trace[Len(s.trace)].fn

\* C5: if a call of a scan throws, the resulting state has status error and a
\* non-empty message (the exception's message, or the fallback when that is empty
\* or missing), and verdict and generatedImage keep their values: verdict is null
\* after a fetch or judge failure and the received verdict after an image failure.
C5_FailureKeepsResults ==
    [][\A i \in DOMAIN scans :
        (lastOp' = "Rejected" /\ scans'[i] # scans[i])
        => /\ state'.status = "error"
           /\ state'.error \notin {NULL, "", Undefined}
           /\ state'.error = IF FailureMessage(scans'[i]) \in {"", Undefined}
                             THEN Fallback ELSE FailureMessage(scans'[i])
           /\ state'.verdict = state.verdict
           /\ state'.generatedImage = state.generatedImage
           /\ IF FailedStage(scans'[i]) = "generateToyOrCoal"
              THEN state'.verdict = scans[i].verdict /\ state'.verdict \in Verdicts
              ELSE state'.verdict = NULL]_vars

\* C5 witness: judgeInput has thrown without a message: the fallback is shown and
\* no verdict is stored.
C5_Witness ==
    /\ lastOp = "Rejected" /\ Len(scans) = 1
    /\ FailedStage(scans[1]) = "judgeInput" /\ FailureMessage(scans[1]) = Undefined
    /\ state.status = "error" /\ state.error = Fallback /\ state.verdict = NULL

\* C6 (as stated): after a failure at any stage no result of the scan (verdict or
\* generatedImage) remains in AppState.
C6_FailureDiscardsAll ==
    state.status = "error" => (state.verdict = NULL /\ state.generatedImage = NULL)

\* C6 (amended): after a failure at the fetch or judge stage no result of the scan
\* is in AppState; after a failure at the generate stage generatedImage is null
\* but the verdict of that scan remains in AppState.
C6_FailureKeepsVerdict ==
    state.status = "error"
    => /\ Len(scans) = 1 /\ scans[1].pc = "failed"
       /\ state.generatedImage = NULL
       /\ IF FailedStage(scans[1]) = "generateToyOrCoal"
          THEN state.verdict = scans[1].verdict /\ state.verdict \in Verdicts
          ELSE state.verdict = NULL

\* C6 witness: generateToyOrCoal has thrown and the verdict is still stored.
C6_Witness ==
    /\ state.status = "error" /\ Len(scans) = 1
    /\ FailedStage(scans[1]) = "generateToyOrCoal"
    /\ state.verdict = "naughty" /\ state.generatedImage = NULL

Fetchers ==
    {"fetchWikiContent", "fetchGithubActivity", "fetchRedditActivity",
     "performDeepResearch"}
CallsOf(s, fns) == {k \in DOMAIN s.trace : s.trace[k].ev = "call" /\ s.trace[k].fn \in fns}

\* the call the dispatch is to make for a known source type
ExpectedFetch(s) ==
    IF s.input.type = "wiki" THEN Call("fetchWikiContent", s.input.content, NoKey)
    ELSE IF s.input.type = "github" THEN Call("fetchGithubActivity", s.input.content, NoKey)
    ELSE IF s.input.type = "reddit" THEN Call("fetchRedditActivity", s.input.content, s.apiKey)
    ELSE Call("performDeepResearch", s.input.content, s.apiKey)

\* C7: the dispatch calls exactly one fetcher, chosen by type, with (content) or
\* (content, apiKey), and passes its result unchanged to judgeInput; for any other
\* type no fetcher is called and judgeInput receives input.content.
C7_Dispatch ==
    \A i \in DOMAIN scans :
        LET s == scans[i] IN
        IF s.input.type \in KnownTypes
        THEN /\ s.trace[1] = ExpectedFetch(s)
             /\ CallsOf(s, Fetchers) = {1}
             /\ \A k \in CallsOf(s, {"judgeInput"}) :
                   /\ k = 3
                   /\ s.trace[2].ev = "ok"
                   /\ s.trace[3].arg = s.trace[2].arg
        ELSE /\ CallsOf(s, Fetchers) = {}
             /\ s.trace[1] = Call("judgeInput", s.input.content, s.apiKey)

\* C7 witness: the reddit fetcher was called with the key and its result has been
\* handed to judgeInput.
C7_Witness ==
    /\ Len(scans) = 1 /\ scans[1].input.type = "reddit" /\ Len(scans[1].trace) = 3
    /\ scans[1].trace[1].fn = "fetchRedditActivity"
    /\ scans[1].trace[3] = Call("judgeInput", "page text", scans[1].apiKey)

\* C8: each scan makes at most one fetch, one judge and one generate call, in that
\* order: judgeInput only right after the fetch has succeeded (or first, when no
\* fetch is made), generateToyOrCoal only right after judgeInput has succeeded,
\* and nothing after a failure.
C8_SingleAttemptInOrder ==
    \A i \in DOMAIN scans :
        LET t == scans[i].trace IN
        /\ Cardinality(CallsOf(scans[i], Fetchers)) <= 1
        /\ Cardinality(CallsOf(scans[i], {"judgeInput"})) <= 1
        /\ Cardinality(CallsOf(scans[i], {"generateToyOrCoal"})) <= 1
        /\ \A k \in DOMAIN t :
              /\ (t[k].ev = "call" /\ t[k].fn \in Fetchers) => k = 1
              /\ (t[k].ev = "call" /\ t[k].fn = "judgeInput")
                    => (k = 1 \/ (t[k-1].ev = "ok" /\ t[k-1].fn \in Fetchers))
              /\ (t[k].ev = "call" /\ t[k].fn = "generateToyOrCoal")
                    => (k > 1 /\ t[k-1].ev = "ok" /\ t[k-1].fn = "judgeInput")
              /\ t[k].ev = "fail" => k = Len(t)
              /\ t[k].ev # "call" => (k > 1 /\ t[k-1].ev = "call" /\ t[k-1].fn = t[k].fn)

\* C8 witness: judgeInput failed after a successful fetch and no further call was
\* made.
C8_Witness ==
    /\ Len(scans) = 1 /\ scans[1].pc = "failed" /\ Len(scans[1].trace) = 4
    /\ scans[1].trace[4].fn = "judgeInput" /\ scans[1].trace[4].ev = "fail"

OnlyWhitespace(s) == \A k \in DOMAIN s : s[k] \in Whitespace

\* t is s without its leading and trailing whitespace (s not only whitespace)
IsTrimmed(t, s) ==
    \E a, b \in DOMAIN s :
        /\ a <= b /\ s[a] \notin Whitespace /\ s[b] \notin Whitespace
        /\ \A k \in DOMAIN s : (k < a \/ k > b) => s[k] \in Whitespace
        /\ t = SubSeq(s, a, b)

\* C9: saveApiKey with an empty or whitespace-only tempKey changes nothing; with
\* any other tempKey it stores the trimmed value in local storage and in apiKey
\* and closes the key modal.
C9_SaveTrims ==
    [][lastOp' = "saveApiKey"
        => IF OnlyWhitespace(tempKey)
           THEN UNCHANGED <<apiKey, localStorage, showKeyModal>>
           ELSE /\ IsTrimmed(apiKey', tempKey)
                /\ localStorage' = apiKey'
                /\ showKeyModal' = FALSE]_vars

\* C9 witness: " a" was saved as "a" and the modal is closed.
C9_Witness ==
    /\ lastOp = "saveApiKey" /\ tempKey = <<" ", "a">>
    /\ apiKey = <<"a">> /\ localStorage = <<"a">> /\ ~showKeyModal

\* C10: at startup apiKey becomes the stored key when one is stored, otherwise the
\* build-time key when one is present, otherwise it stays empty.
C10_StoredKeyWins ==
    [][lastOp' = "Mount"
        => apiKey' = IF localStorage # NoKey THEN localStorage
                     ELSE IF envKey # NoKey THEN envKey
                     ELSE <<>>]_vars

\* C10 witness: both keys exist and the stored one is in memory after the mount.
C10_Witness ==
    /\ lastOp = "Mount" /\ localStorage = <<"s">> /\ envKey = <<"e">>
    /\ apiKey = <<"s">>

\* the key local storage holds, '' when none is stored
StoredValue == IF localStorage = NoKey THEN <<>> ELSE localStorage

\* C11 (as stated): after startup initialisation and after any saves and scans,
\* the in-memory apiKey equals the value stored under GEMINI_API_KEY.
C11_KeyMirrored == mounted => apiKey = StoredValue

\* C11 (amended): after startup initialisation and after any saves and scans,
\* apiKey equals the stored value whenever a key is stored; when none is stored
\* it is the build-time default (which is never written to local storage), or
\* empty when there is none.
C11_StoredKeyMirrored ==
    mounted => apiKey = IF localStorage # NoKey THEN localStorage
                        ELSE IF envKey # NoKey THEN envKey
                        ELSE <<>>

\* C11 witness: a key was saved over the build-time default and a scan submitted;
\* memory and storage hold the saved key.
C11_Witness ==
    /\ envKey = <<"e">> /\ scanCount = 1
    /\ apiKey = <<"a">> /\ localStorage = <<"a">>

\* C12: after startup initialisation the API key, in memory and in local storage,
\* is changed only by a saveApiKey that saves (tempKey not only whitespace):
\* submitting a scan, the phase transitions of a scan, opening or cancelling the
\* key modal and the export-modal actions leave both unchanged.
C12_OnlySaveChangesKey ==
    [][(mounted /\ (apiKey' # apiKey \/ localStorage' # localStorage))
        => (lastOp' = "saveApiKey" /\ ~OnlyWhitespace(tempKey))]_vars

\* C12 witness: a key was saved, then a scan ran to its end and the export was
\* unlocked; memory and storage still hold the saved key.
C12_Witness ==
    /\ lastOp = "handleUnlockSleigh" /\ downloads = 1
    /\ scanCount = 1 /\ state.status = "complete"
    /\ apiKey = <<"a">> /\ localStorage = <<"a">> /\ envKey = <<"e">>

CasePairs == {<<"h", "H">>, <<"o", "O">>}
SameIgnoringCase(p, q) ==
    /\ Len(p) = Len(q)
    /\ \A k \in DOMAIN p :
          p[k] = q[k] \/ <<p[k], q[k]>> \in CasePairs \/ <<q[k], p[k]>> \in CasePairs

\* C13: handleUnlockSleigh triggers the download and closes the export modal if
\* and only if the password equals "HOHOHO" ignoring case; for any other password
\* no download is triggered, the modal stays open and passwordError becomes true.
C13_UnlockIffPassword ==
    [][lastOp' = "handleUnlockSleigh"
        => IF SameIgnoringCase(exportPassword, HOHOHO)
           THEN downloads' = downloads + 1 /\ showExportModal' = FALSE
           ELSE /\ downloads' = downloads
                /\ showExportModal' = showExportModal /\ showExportModal'
                /\ passwordError' = TRUE]_vars

\* C13 witness: "hohoho" has unlocked the download and the modal is closed.
C13_Witness ==
    /\ lastOp = "handleUnlockSleigh" /\ downloads = 1 /\ ~showExportModal
    /\ exportPassword = <<"h", "o", "h", "o", "h", "o">>

Succeeded(s, fns) == \E k \in DOMAIN s.trace : s.trace[k].ev = "ok" /\ s.trace[k].fn \in fns
Failed(s) == \E k \in DOMAIN s.trace : s.trace[k].ev = "fail"

\* C14: in every state with status complete, verdict and generatedImage are set
\* and error is null, and the scan's fetch (when its type has one), judge and
\* generate calls have all succeeded.
C14_CompleteHasResults ==
    state.status = "complete"
    => /\ state.verdict \in Verdicts
       /\ state.generatedImage \in Images
       /\ state.error = NULL
       /\ Len(scans) = 1 /\ scans[1].pc = "done" /\ ~Failed(scans[1])
       /\ scans[1].input.type \in KnownTypes => Succeeded(scans[1], Fetchers)
       /\ Succeeded(scans[1], {"judgeInput"})
       /\ Succeeded(scans[1], {"generateToyOrCoal"})

\* C14 witness: the wiki scan of "Rudolph" judged nice is complete with verdict
\* and image.
C14_Witness ==
    /\ state.status = "complete" /\ Len(scans) = 1
    /\ scans[1].input = [type |-> "wiki", content |-> "Rudolph"]
    /\ state.verdict = "nice" /\ state.generatedImage = "base64"

\* C15: in every state with status generating_image the verdict received from
\* judgeInput is stored and generatedImage is null; in every state with status
\* fetching_data or judging both are null.
C15_VerdictWithImagePhase ==
    /\ state.status = "generating_image"
          => /\ state.verdict \in Verdicts
             /\ Len(scans) = 1 /\ state.verdict = scans[1].verdict
             /\ state.generatedImage = NULL
    /\ state.status \in {"fetching_data", "judging"}
          => (state.verdict = NULL /\ state.generatedImage = NULL)

\* C15 witness: the second scan is in its image phase with its verdict stored
\* and no image.
C15_Witness ==
    /\ lastOp = "JudgeResolved" /\ scanCount = 2
    /\ state.status = "generating_image"
    /\ state.verdict = "naughty" /\ state.generatedImage = NULL

\* C16: a stored verdict is not changed until the next scan starts: the moves
\* from generating_image to complete and to error, saveApiKey and the key-modal
\* and export-modal actions leave it unchanged; only the reset at the start of a
\* new scan clears it.
C16_VerdictKeptUntilNextScan ==
    [][(state.verdict # NULL /\ state'.verdict # state.verdict)
        => /\ lastOp' = "handleScan"
           /\ scanCount' = scanCount + 1
           /\ state'.verdict = NULL]_vars

\* C16 witness: the image call failed, then the export was unlocked and a key
\* saved; the verdict is still stored.
C16_Witness ==
    /\ lastOp = "saveApiKey" /\ apiKey = <<"a">> /\ downloads = 1
    /\ state.status = "error" /\ state.verdict = "nice"

\* C17: if every external call eventually resolves or rejects, a scan that has
\* entered a working status (fetching_data, or judging when no fetch is made)
\* eventually reaches complete or error with no invocation left running, and
\* the status is a working one (the form disabled) as long as it is running.
C17_ScanEnds ==
    /\ [](InFlight > 0 => state.status \in Working)
    /\ (state.status \in Working)
          ~> (state.status \in {"complete", "error"} /\ InFlight = 0)

\* C17 witness: a scan that entered fetching_data has ended in complete and the
\* form is enabled again.
C17_Witness ==
    /\ lastOp = "GenerateResolved" /\ Len(scans) = 1
    /\ scans[1].input.type = "reddit" /\ scans[1].trace[1].fn = "fetchRedditActivity"
    /\ state.status = "complete" /\ InFlight = 0

\* C18: in every state, error is non-null if and only if status is error.
C18_ErrorIffErrorStatus == (state.error # NULL) <=> (state.status = "error")

\* C18 witness: the second scan has failed and its message is shown.
C18_Witness ==
    /\ lastOp = "Rejected" /\ scanCount = 2
    /\ state.status = "error" /\ state.error = "Page not found"

\* C19: in every state with status complete, the stored verdict is judgeInput's
\* result for the evidence fetched for the most recently submitted ScanInput (its
\* content itself when no fetch is made), and generatedImage is the image
\* generated from that verdict's visual_prompt.
C19_ResultsOfLatestScan ==
    state.status = "complete"
    => LET s == scans[Len(scans)]
           o == IF s.input.type \in KnownTypes THEN 2 ELSE 0
           t == s.trace
       IN  /\ s.id = scanCount
           /\ Len(t) = o + 4
           /\ o = 2 => /\ t[1].ev = "call" /\ t[1].fn \in Fetchers
                       /\ t[1].arg = s.input.content
                       /\ t[2].ev = "ok" /\ t[3].arg = t[2].arg
           /\ o = 0 => t[1].arg = s.input.content
           /\ t[o + 1] = Call("judgeInput", t[o + 1].arg, t[o + 1].key)
           /\ t[o + 2] = Ok("judgeInput", state.verdict)
           /\ t[o + 3].ev = "call" /\ t[o + 3].fn = "generateToyOrCoal"
           /\ t[o + 3].arg = visual_prompt(state.verdict)
           /\ t[o + 4] = Ok("generateToyOrCoal", state.generatedImage)

\* C19 witness: the second scan, a news scan judged naughty, is complete.
C19_Witness ==
    /\ state.status = "complete" /\ scanCount = 2 /\ Len(scans) = 1
    /\ scans[1].id = 2 /\ scans[1].input.type = "news"
    /\ state.verdict = "naughty"

KeyedCalls == {"fetchRedditActivity", "performDeepResearch", "judgeInput",
               "generateToyOrCoal"}

\* C20: a scan passes the API key that was in memory when it was submitted to all
\* of its calls that take one: the invocation holds the key of its submission,
\* keeps it whatever saveApiKey does meanwhile, and every reddit/news fetch, judge
\* and generate call it makes carries that key.
C20_KeyOfSubmission ==
    [][/\ (lastOp' = "handleScan" /\ scanCount' = scanCount + 1)
            => Submitted.apiKey = apiKey
       /\ lastOp' # "handleScan"
            => /\ DOMAIN scans' = DOMAIN scans
               /\ \A i \in DOMAIN scans : scans'[i].apiKey = scans[i].apiKey
       /\ \A i \in DOMAIN scans' : \A k \in DOMAIN scans'[i].trace :
             (scans'[i].trace[k].ev = "call" /\ scans'[i].trace[k].fn \in KeyedCalls)
                => scans'[i].trace[k].key = scans'[i].apiKey]_vars

\* C20 witness: a key was saved while a wiki scan was in flight, and the scan's
\* generate call still carries the key of its submission.
C20_Witness ==
    /\ lastOp = "JudgeResolved" /\ Len(scans) = 1
    /\ scans[1].input.type = "wiki" /\ Len(scans[1].trace) = 5
    /\ scans[1].trace[5].fn = "generateToyOrCoal" /\ scans[1].trace[5].key = <<"s">>
    /\ apiKey = <<"a">>

====
